---- MODULE Spec2Model ----
(***************************************************************************)
(* Model of mars-rover-cli: the nom grammar of src/parse.rs, the error and *)
(* enumeration types of src/enums.rs and the rover / satellite logic of    *)
(* src/rover.rs.  Text is a sequence of one-character strings, an          *)
(* Option<T> is a sequence of length at most one, an IResult / Result is a *)
(* tagged record.                                                          *)
(***************************************************************************)
EXTENDS Integers, Sequences, FiniteSets, TLC

VARIABLES message, eof, unbounded, pc, lines, bounderies,
          instructions_and_positions, index, rover, i, collected, result,
          trail, previous, shown

vars == <<message, eof, unbounded, pc, lines, bounderies,
          instructions_and_positions, index, rover, i, collected, result,
          trail, previous, shown>>

\* ------------------------------------------------------------------ bounds
\* Longest message (in lines) the environment hands to the satellite.
MaxLines == 5

\* ------------------------------------------------------------ Option<T>
None == <<>>
Some(v) == <<v>>

\* ------------------------------------------------------------- characters
Digit == {"0", "1", "2", "3", "4", "5", "6", "7", "8", "9"}

DigitValue(c) ==
    CASE c = "0" -> 0 [] c = "1" -> 1 [] c = "2" -> 2 [] c = "3" -> 3
      [] c = "4" -> 4 [] c = "5" -> 5 [] c = "6" -> 6 [] c = "7" -> 7
      [] c = "8" -> 8 [] c = "9" -> 9

\* nom's multispace: space, tab, carriage return, line feed.
IsMultispace(c) == c \in {" ", "\t", "\r", "\n"}

\* char::is_whitespace, used by str::trim (form feed is one more member).
IsWhitespace(c) == c \in {" ", "\t", "\r", "\n", "\f"}

Drop(s, n) == SubSeq(s, n + 1, Len(s))

RECURSIVE TrimStart(_)
TrimStart(s) ==
    IF s # <<>> /\ IsWhitespace(Head(s)) THEN TrimStart(Tail(s)) ELSE s

RECURSIVE TrimEnd(_)
TrimEnd(s) ==
    IF s # <<>> /\ IsWhitespace(s[Len(s)])
    THEN TrimEnd(SubSeq(s, 1, Len(s) - 1)) ELSE s

\* str::trim as applied to every line (rover.rs:72).
Trim(s) == TrimEnd(TrimStart(s))

\* ------------------------------------------------------ IResult<&str, T>
POk(rest, val) == [ok |-> TRUE, rest |-> rest, val |-> val]
PErr == [ok |-> FALSE, rest |-> <<>>, val |-> <<>>]

\* multispace0 / multispace1: number of leading multispace characters.
RECURSIVE Multispace(_)
Multispace(s) ==
    IF s # <<>> /\ IsMultispace(Head(s)) THEN 1 + Multispace(Tail(s)) ELSE 0

\* many0(char('_')): number of leading underscores.
RECURSIVE Underscores(_)
Underscores(s) ==
    IF s # <<>> /\ Head(s) = "_" THEN 1 + Underscores(Tail(s)) ELSE 0

\* many1(terminated(one_of("0123456789"), many0(char('_')))): length of the
\* recognised token, 0 when the first character is not a digit.
RECURSIVE DigitGroups(_)
DigitGroups(s) ==
    IF s = <<>> \/ Head(s) \notin Digit THEN 0
    ELSE LET u == Underscores(Tail(s))
         IN  1 + u + DigitGroups(Drop(Tail(s), u))

RECURSIVE DigitsValue(_)
DigitsValue(tok) ==
    IF tok = <<>> THEN 0
    ELSE 10 * DigitsValue(SubSeq(tok, 1, Len(tok) - 1)) + DigitValue(tok[Len(tok)])

\* str::parse::<isize> on the recognised token: every character has to be
\* a digit, so a token holding an underscore is rejected.
\* (A token above isize::MAX is rejected as well; the numbers of LineSet
\* have at most two digits.)
ParseIsize(tok) ==
    IF tok # <<>> /\ \A k \in 1..Len(tok) : tok[k] \in Digit
    THEN Some(DigitsValue(tok)) ELSE None

decimal(input) ==
    LET n == DigitGroups(input)
        parsed == ParseIsize(SubSeq(input, 1, n))
    IN  IF n = 0 \/ parsed = None THEN PErr
        ELSE POk(Drop(input, n), parsed[1])

\* separated_pair(decimal, multispace1, decimal)
coordinate(input) ==
    LET a == decimal(input) IN
    IF ~a.ok THEN PErr ELSE
    LET sp == Multispace(a.rest) IN
    IF sp = 0 THEN PErr ELSE
    LET b == decimal(Drop(a.rest, sp)) IN
    IF ~b.ok THEN PErr ELSE POk(b.rest, <<a.val, b.val>>)

\* impl From<&str> for Direction
DirectionFrom(c) ==
    CASE c \in {"N", "n"} -> "North"
      [] c \in {"E", "e"} -> "East"
      [] c \in {"S", "s"} -> "South"
      [] c \in {"W", "w"} -> "West"
      [] OTHER -> "North"

\* impl From<&str> for Instruction
InstructionFrom(c) ==
    CASE c \in {"M", "m"} -> "Move"
      [] c \in {"L", "l"} -> "Left"
      [] c \in {"R", "r"} -> "Right"
      [] OTHER -> "Move"

\* direction matching with tag instead of tag_no_case.
direction_case_sensitive(input) ==
    IF input # <<>> /\ Head(input) \in {"N", "E", "S", "W"}
    THEN POk(Tail(input), DirectionFrom(Head(input))) ELSE PErr

\* alt of tag_no_case("N"), ("E"), ("S"), ("W"), then .into()
direction(input) ==
    IF input # <<>> /\ Head(input) \in {"N", "n", "E", "e", "S", "s", "W", "w"}
    THEN POk(Tail(input), DirectionFrom(Head(input))) ELSE PErr

\* alt of tag_no_case("M"), ("L"), ("R"), then .into()
instruction(input) ==
    IF input # <<>> /\ Head(input) \in {"M", "m", "L", "l", "R", "r"}
    THEN POk(Tail(input), InstructionFrom(Head(input))) ELSE PErr

\* separated_pair(coordinate, multispace1, direction)
starting_position(input) ==
    LET c == coordinate(input) IN
    IF ~c.ok THEN PErr ELSE
    LET sp == Multispace(c.rest) IN
    IF sp = 0 THEN PErr ELSE
    LET d == direction(Drop(c.rest, sp)) IN
    IF ~d.ok THEN PErr ELSE POk(d.rest, <<c.val, d.val>>)

\* many0(terminated(instruction, multispace0)): the tail of many1.
RECURSIVE InstructionsMany0(_)
InstructionsMany0(input) ==
    LET one == instruction(input) IN
    IF ~one.ok THEN POk(input, <<>>)
    ELSE LET more == InstructionsMany0(Drop(one.rest, Multispace(one.rest)))
         IN  POk(more.rest, <<one.val>> \o more.val)

\* many0(instruction): instructions with nothing skipped after them.
RECURSIVE InstructionsOnly(_)
InstructionsOnly(input) ==
    LET one == instruction(input) IN
    IF ~one.ok THEN POk(input, <<>>)
    ELSE LET more == InstructionsOnly(one.rest)
         IN  POk(more.rest, <<one.val>> \o more.val)

\* instruction_stream as many1(instruction), without multispace0.
instruction_stream_no_space(input) ==
    IF ~instruction(input).ok THEN PErr ELSE InstructionsOnly(input)

\* many1(terminated(instruction, multispace0))
instruction_stream(input) ==
    IF ~instruction(input).ok THEN PErr ELSE InstructionsMany0(input)

\* ------------------------------------------------------ Result<T, RoverErr>
Ok(t) == [tag |-> "Ok", val |-> t]
ParseErr(e, line_index) == [tag |-> "Parse", err |-> e, line |-> line_index]
BounderyErr(r, n) == [tag |-> "Boundery", rover |-> r, instruction |-> n]

\* RoverErr::from_parse_result without the s.is_empty() guard.
from_parse_result_partial(input, line_index) ==
    IF input.ok THEN Ok(input.val)
    ELSE ParseErr("UnexpectedToken", line_index)

\* RoverErr::from_parse_result
from_parse_result(input, line_index) ==
    IF input.ok /\ input.rest = <<>> THEN Ok(input.val)
    ELSE ParseErr("UnexpectedToken", line_index)

\* ------------------------------------------------------------------ rover
Directions == <<"North", "East", "South", "West">>

DirectionIndex(d) == CHOOSE k \in 1..4 : Directions[k] = d

\* enum_iterator::next_cycle / previous_cycle over the derived Sequence.
next_cycle(d) == Directions[(DirectionIndex(d) % 4) + 1]

\* previous_cycle without the wrap: the step before North is None and
\* unwrap_or_default turns it into North.
previous_cycle_no_wrap(d) ==
    IF d = "North" THEN "North" ELSE Directions[DirectionIndex(d) - 1]

previous_cycle(d) == Directions[((DirectionIndex(d) + 2) % 4) + 1]

\* Rover::new
RoverNew(id, coordinates, facing) ==
    [id |-> id, x |-> coordinates[1], y |-> coordinates[2], facing |-> facing]

\* Rover::has_crossed_boundery without the implied lower bound (0, 0).
has_crossed_boundery_no_lower(r, boundery) ==
    IF boundery = None THEN FALSE
    ELSE r.x > boundery[1][1] \/ r.y > boundery[1][2]

\* Rover::has_crossed_boundery with the upper bound taken as exclusive.
has_crossed_boundery_exclusive(r, boundery) ==
    IF boundery = None THEN FALSE
    ELSE r.x < 0 \/ r.y < 0 \/ r.x >= boundery[1][1] \/ r.y >= boundery[1][2]

\* Rover::has_crossed_boundery keeping the lower bound when there is no
\* boundary.
has_crossed_boundery_origin(r, boundery) ==
    IF boundery = None THEN r.x < 0 \/ r.y < 0
    ELSE r.x < 0 \/ r.y < 0 \/ r.x > boundery[1][1] \/ r.y > boundery[1][2]

\* Rover::has_crossed_boundery
has_crossed_boundery(r, boundery) ==
    IF boundery = None THEN FALSE
    ELSE r.x < 0 \/ r.y < 0 \/ r.x > boundery[1][1] \/ r.y > boundery[1][2]

\* ApplyInstruction with the y axis pointing down: North decrements y.
ApplyInstructionYDown(r, ins) ==
    CASE ins = "Left"  -> [r EXCEPT !.facing = previous_cycle(r.facing)]
      [] ins = "Right" -> [r EXCEPT !.facing = next_cycle(r.facing)]
      [] ins = "Move"  ->
           CASE r.facing = "North" -> [r EXCEPT !.y = r.y - 1]
             [] r.facing = "East"  -> [r EXCEPT !.x = r.x + 1]
             [] r.facing = "South" -> [r EXCEPT !.y = r.y + 1]
             [] r.facing = "West"  -> [r EXCEPT !.x = r.x - 1]

\* ApplyInstruction with the two turns taken for each other.
ApplyInstructionTurnsSwapped(r, ins) ==
    CASE ins = "Left"  -> [r EXCEPT !.facing = next_cycle(r.facing)]
      [] ins = "Right" -> [r EXCEPT !.facing = previous_cycle(r.facing)]
      [] ins = "Move"  ->
           CASE r.facing = "North" -> [r EXCEPT !.y = r.y + 1]
             [] r.facing = "East"  -> [r EXCEPT !.x = r.x + 1]
             [] r.facing = "South" -> [r EXCEPT !.y = r.y - 1]
             [] r.facing = "West"  -> [r EXCEPT !.x = r.x - 1]

\* The match on one instruction in the loop body of Rover::execute_commands.
ApplyInstruction(r, ins) ==
    CASE ins = "Left"  -> [r EXCEPT !.facing = previous_cycle(r.facing)]
      [] ins = "Right" -> [r EXCEPT !.facing = next_cycle(r.facing)]
      [] ins = "Move"  ->
           CASE r.facing = "North" -> [r EXCEPT !.y = r.y + 1]
             [] r.facing = "East"  -> [r EXCEPT !.x = r.x + 1]
             [] r.facing = "South" -> [r EXCEPT !.y = r.y - 1]
             [] r.facing = "West"  -> [r EXCEPT !.x = r.x - 1]

\* ----------------------------------------------------------------- output
DigitCharacter(n) ==
    CASE n = 0 -> "0" [] n = 1 -> "1" [] n = 2 -> "2" [] n = 3 -> "3"
      [] n = 4 -> "4" [] n = 5 -> "5" [] n = 6 -> "6" [] n = 7 -> "7"
      [] n = 8 -> "8" [] n = 9 -> "9"

\* "{}" on a usize: its decimal digits.
RECURSIVE FormatUsize(_)
FormatUsize(n) ==
    IF n < 10 THEN <<DigitCharacter(n)>>
    ELSE FormatUsize(n \div 10) \o <<DigitCharacter(n % 10)>>

\* "{}" on an isize: a minus sign before the digits of a negative number.
FormatIsize(n) ==
    IF n < 0 THEN <<"-">> \o FormatUsize(-n) ELSE FormatUsize(n)

\* impl Display for Direction
DirectionLetter(d) ==
    CASE d = "North" -> "N" [] d = "East" -> "E"
      [] d = "South" -> "S" [] d = "West" -> "W"

\* impl ToString for Rover: "{x} {y} {facing}"
RoverToString(r) ==
    FormatIsize(r.x) \o <<" ">> \o FormatIsize(r.y) \o <<" ">>
        \o <<DirectionLetter(r.facing)>>

\* impl Display for ParsingErr
ParsingErrText(e) ==
    CASE e = "MissingPlateauBounderies" -> "Missing plateau bounderies"
      [] e = "MissingInstructions" -> "Missing instructions for rover"
      [] e = "UnexpectedToken" -> "Unexpected token encountered"

\* impl Display for RoverErr showing the line of the starting position,
\* rover.id * 2, as the line of the error.
DisplayStartLine(e) ==
    IF e.tag = "Parse"
    THEN [kind |-> "Parse", err |-> ParsingErrText(e.err),
          line |-> FormatUsize(e.line + 1)]
    ELSE [kind |-> "Boundery", rover |-> FormatUsize(e.rover.id),
          x |-> FormatIsize(e.rover.x), y |-> FormatIsize(e.rover.y),
          instruction |-> FormatUsize(e.instruction + 1),
          line |-> FormatUsize(e.rover.id * 2)]

\* impl Display for RoverErr, the Parse and Boundery arms: the values put
\* into the places of the message, as the text of each.
Display(e) ==
    IF e.tag = "Parse"
    THEN [kind |-> "Parse", err |-> ParsingErrText(e.err),
          line |-> FormatUsize(e.line + 1)]
    ELSE [kind |-> "Boundery", rover |-> FormatUsize(e.rover.id),
          x |-> FormatIsize(e.rover.x), y |-> FormatIsize(e.rover.y),
          instruction |-> FormatUsize(e.instruction + 1),
          line |-> FormatUsize((e.rover.id * 2) + 1)]

\* -------------------------------------------------------------- satellite
\* parse_bounderies taking a missing first line for an empty one.
parse_bounderies_empty_line(input) ==
    IF input # None THEN from_parse_result(coordinate(input[1][2]), 0)
    ELSE from_parse_result(coordinate(<<>>), 0)

\* RoverControlSatellite::parse_bounderies
parse_bounderies(input) ==
    IF input # None THEN from_parse_result(coordinate(input[1][2]), 0)
    ELSE ParseErr("MissingPlateauBounderies", 0)

\* parse_instructions_and_position trying the instruction line before the
\* starting position of the same pair.
parse_instructions_and_position_instructions_first(input) ==
    IF input[1] # None /\ input[2] # None THEN
        LET pos == from_parse_result(starting_position(input[1][1][2]), input[1][1][1])
            ins == from_parse_result(instruction_stream(input[2][1][2]), input[2][1][1])
        IN  IF ins.tag # "Ok" THEN ins
            ELSE IF pos.tag # "Ok" THEN pos
            ELSE Ok(Some(<<pos.val, ins.val>>))
    ELSE IF input[1] # None THEN ParseErr("MissingInstructions", input[1][1][1])
    ELSE Ok(None)

\* parse_instructions_and_position parsing the starting position before it
\* looks whether the instruction line is there.
parse_instructions_and_position_position_first(input) ==
    IF input[1] # None THEN
        LET pos == from_parse_result(starting_position(input[1][1][2]), input[1][1][1])
        IN  IF pos.tag # "Ok" THEN pos
            ELSE IF input[2] = None
            THEN ParseErr("MissingInstructions", input[1][1][1])
            ELSE LET ins == from_parse_result(instruction_stream(input[2][1][2]),
                                              input[2][1][1])
                 IN  IF ins.tag # "Ok" THEN ins
                     ELSE Ok(Some(<<pos.val, ins.val>>))
    ELSE Ok(None)

\* parse_instructions_and_position asking for a rover: the (None, None)
\* case falls into the error arm.
parse_instructions_and_position_requires_rover(input) ==
    IF input[1] # None /\ input[2] # None THEN
        LET pos == from_parse_result(starting_position(input[1][1][2]), input[1][1][1])
            ins == from_parse_result(instruction_stream(input[2][1][2]), input[2][1][1])
        IN  IF pos.tag # "Ok" THEN pos
            ELSE IF ins.tag # "Ok" THEN ins
            ELSE Ok(Some(<<pos.val, ins.val>>))
    ELSE IF input[1] # None THEN ParseErr("MissingInstructions", input[1][1][1])
    ELSE ParseErr("MissingInstructions", 0)

\* RoverControlSatellite::parse_instructions_and_position
parse_instructions_and_position(input) ==
    IF input[1] # None /\ input[2] # None THEN
        LET pos == from_parse_result(starting_position(input[1][1][2]), input[1][1][1])
            ins == from_parse_result(instruction_stream(input[2][1][2]), input[2][1][1])
        IN  IF pos.tag # "Ok" THEN pos
            ELSE IF ins.tag # "Ok" THEN ins
            ELSE Ok(Some(<<pos.val, ins.val>>))
    ELSE IF input[1] # None THEN ParseErr("MissingInstructions", input[1][1][1])
    ELSE Ok(None)

\* The lines a message is made of, before trimming.
LineSet ==
    { <<"1", " ", "1">>,                          \* "1 1"
      <<"2", " ", "1">>,                          \* "2 1"
      <<"0", " ", "0", " ", "N">>,                \* "0 0 N"
      <<"1", " ", "0", " ", "n">>,                \* "1 0 n"
      <<"2", " ", "1", " ", "W">>,                \* "2 1 W"
      <<"0", " ", "0", " ", "W">>,                \* "0 0 W"
      <<"M">>,                                    \* "M"
      <<"L", "M", "M">>,                          \* "LMM"
      <<" ", "m", " ", "m", " ">>,                \* " m m "
      <<"M", "R", "R", "M">>,                     \* "MRRM"
      <<"M", " ", "x">>,                          \* "M x"
      <<"1", " ", "1", " ", "N", " ", "x">>,      \* "1 1 N x"
      <<"1", "_", "0", " ", "1">>,                \* "1_0 1"
      <<>> }                                       \* ""

\* lines.next() on message.lines().map(trim).enumerate(): the line at the
\* iterator's position, paired with its index.  The message is a parameter
\* of the call; the part of it the iterator has not reached yet is chosen
\* when the iterator reaches it, and stays fixed from then on.
NextLine(msg, end, at) ==
    IF at < Len(msg)
    THEN {[item |-> Some(<<at, Trim(msg[at + 1])>>), message |-> msg,
           eof |-> end, lines |-> at + 1]}
    ELSE {[item |-> None, message |-> msg, eof |-> TRUE, lines |-> at]}
         \cup (IF end \/ Len(msg) >= MaxLines THEN {}
               ELSE {[item |-> Some(<<at, Trim(l)>>), message |-> Append(msg, l),
                      eof |-> FALSE, lines |-> at + 1] : l \in LineSet})

Init ==
    /\ message = <<>>
    /\ eof = FALSE
    /\ unbounded \in BOOLEAN
    /\ pc = "bounderies"
    /\ lines = 0
    /\ bounderies = None
    /\ instructions_and_positions = <<>>
    /\ index = 0
    /\ rover = None
    /\ i = 0
    /\ collected = <<>>
    /\ result = None
    /\ trail = <<>>
    /\ previous = None
    /\ shown = None

\* rover.rs:72-73: take the first line and parse the plateau's bounderies.
ParseBounderies ==
    /\ pc = "bounderies"
    /\ \E n \in NextLine(message, eof, lines) :
         LET r == parse_bounderies(n.item) IN
         /\ message' = n.message
         /\ eof' = n.eof
         /\ lines' = n.lines
         /\ IF r.tag = "Ok"
            THEN bounderies' = Some(r.val) /\ pc' = "pairs" /\ result' = None
            ELSE bounderies' = bounderies /\ pc' = "done" /\ result' = Some(r)
    /\ UNCHANGED <<unbounded, instructions_and_positions, index, rover, i,
                   collected, trail, previous>>
    /\ UNCHANGED shown

\* ParsePair handing over to the rovers as soon as one pair is parsed.
ParsePairEager ==
    /\ pc = "pairs"
    /\ \E n1 \in NextLine(message, eof, lines) :
       \E n2 \in NextLine(n1.message, n1.eof, n1.lines) :
         LET r == parse_instructions_and_position(<<n1.item, n2.item>>) IN
         /\ message' = n2.message
         /\ eof' = n2.eof
         /\ lines' = n2.lines
         /\ IF r.tag # "Ok"
            THEN /\ pc' = "done"
                 /\ result' = Some(r)
                 /\ UNCHANGED instructions_and_positions
            ELSE IF r.val # None
            THEN /\ instructions_and_positions' =
                        Append(instructions_and_positions, r.val[1])
                 /\ pc' = "execute"
                 /\ UNCHANGED result
            ELSE /\ pc' = "execute"
                 /\ UNCHANGED <<instructions_and_positions, result>>
    /\ UNCHANGED <<unbounded, bounderies, index, rover, i, collected, trail,
                   previous>>
    /\ UNCHANGED shown

\* rover.rs:76-79: one turn of the while-let loop over pairs of lines.
ParsePair ==
    /\ pc = "pairs"
    /\ \E n1 \in NextLine(message, eof, lines) :
       \E n2 \in NextLine(n1.message, n1.eof, n1.lines) :
         LET r == parse_instructions_and_position(<<n1.item, n2.item>>) IN
         /\ message' = n2.message
         /\ eof' = n2.eof
         /\ lines' = n2.lines
         /\ IF r.tag # "Ok"
            THEN /\ pc' = "done"
                 /\ result' = Some(r)
                 /\ UNCHANGED instructions_and_positions
            ELSE IF r.val # None
            THEN /\ instructions_and_positions' =
                        Append(instructions_and_positions, r.val[1])
                 /\ UNCHANGED <<pc, result>>
            ELSE /\ pc' = "execute"
                 /\ UNCHANGED <<instructions_and_positions, result>>
    /\ UNCHANGED <<unbounded, bounderies, index, rover, i, collected, trail,
                   previous>>
    /\ UNCHANGED shown

\* NewRover numbering the rovers from 0.
NewRoverZeroBased ==
    /\ pc = "execute"
    /\ rover = None
    /\ index < Len(instructions_and_positions)
    /\ LET entry == instructions_and_positions[index + 1] IN
       rover' = Some(RoverNew(index, entry[1][1], entry[1][2]))
    /\ i' = 0
    /\ trail' = Append(trail, <<>>)
    /\ UNCHANGED <<message, eof, unbounded, pc, lines, bounderies,
                   instructions_and_positions, index, collected, result,
                   previous>>
    /\ UNCHANGED shown

\* NewRover keeping the facing of the rover that ran before.
NewRoverFromPrevious ==
    /\ pc = "execute"
    /\ rover = None
    /\ index < Len(instructions_and_positions)
    /\ LET entry == instructions_and_positions[index + 1] IN
       rover' = Some(RoverNew(index + 1, entry[1][1],
                              IF collected = <<>> THEN entry[1][2]
                              ELSE collected[Len(collected)].facing))
    /\ i' = 0
    /\ trail' = Append(trail, <<>>)
    /\ UNCHANGED <<message, eof, unbounded, pc, lines, bounderies,
                   instructions_and_positions, index, collected, result,
                   previous>>
    /\ UNCHANGED shown

\* NewRover checking the starting position against the plateau.
NewRoverChecked ==
    /\ pc = "execute"
    /\ rover = None
    /\ index < Len(instructions_and_positions)
    /\ LET entry == instructions_and_positions[index + 1]
           start == RoverNew(index + 1, entry[1][1], entry[1][2])
       IN  /\ rover' = Some(start)
           /\ IF has_crossed_boundery(start, IF unbounded THEN None ELSE bounderies)
              THEN result' = Some(BounderyErr(start, 0)) /\ pc' = "done"
              ELSE UNCHANGED <<result, pc>>
    /\ i' = 0
    /\ trail' = Append(trail, <<>>)
    /\ UNCHANGED <<message, eof, unbounded, lines, bounderies,
                   instructions_and_positions, index, collected, previous>>
    /\ UNCHANGED shown

\* rover.rs:84-85: the map closure builds the next rover of the list.
NewRover ==
    /\ pc = "execute"
    /\ rover = None
    /\ index < Len(instructions_and_positions)
    /\ LET entry == instructions_and_positions[index + 1] IN
       rover' = Some(RoverNew(index + 1, entry[1][1], entry[1][2]))
    /\ i' = 0
    /\ trail' = Append(trail, <<>>)
    /\ UNCHANGED <<message, eof, unbounded, pc, lines, bounderies,
                   instructions_and_positions, index, collected, result,
                   previous>>
    /\ UNCHANGED shown

\* ExecuteInstruction handing Some(bounderies) to execute_commands whatever
\* the unbounded flag says.
ExecuteInstructionAlwaysBounded ==
    /\ pc = "execute"
    /\ rover # None
    /\ i < Len(instructions_and_positions[index + 1][2])
    /\ LET moved == ApplyInstruction(rover[1],
                        instructions_and_positions[index + 1][2][i + 1])
       IN  /\ rover' = Some(moved)
           /\ trail' = [trail EXCEPT ![Len(trail)] = Append(@, moved)]
           /\ IF has_crossed_boundery(moved, bounderies)
              THEN /\ result' = Some(BounderyErr(moved, i))
                   /\ pc' = "done"
                   /\ UNCHANGED i
              ELSE /\ i' = i + 1
                   /\ UNCHANGED <<result, pc>>
    /\ UNCHANGED <<message, eof, unbounded, lines, bounderies,
                   instructions_and_positions, index, collected, previous>>
    /\ UNCHANGED shown

\* ExecuteInstruction leaving out a rover that crossed the boundary and
\* going on with the next one.
ExecuteInstructionSkipping ==
    /\ pc = "execute"
    /\ rover # None
    /\ i < Len(instructions_and_positions[index + 1][2])
    /\ LET moved == ApplyInstruction(rover[1],
                        instructions_and_positions[index + 1][2][i + 1])
           boundery == IF unbounded THEN None ELSE bounderies
       IN  /\ trail' = [trail EXCEPT ![Len(trail)] = Append(@, moved)]
           /\ IF has_crossed_boundery(moved, boundery)
              THEN /\ rover' = None
                   /\ index' = index + 1
                   /\ UNCHANGED i
              ELSE /\ rover' = Some(moved)
                   /\ i' = i + 1
                   /\ UNCHANGED index
    /\ UNCHANGED <<message, eof, unbounded, pc, lines, bounderies,
                   instructions_and_positions, collected, result, previous>>
    /\ UNCHANGED shown

\* rover.rs:31-46: one turn of the for loop of execute_commands, called with
\* boundery = (!unbounded).then(|| bounderies).
ExecuteInstruction ==
    /\ pc = "execute"
    /\ rover # None
    /\ i < Len(instructions_and_positions[index + 1][2])
    /\ LET moved == ApplyInstruction(rover[1],
                        instructions_and_positions[index + 1][2][i + 1])
           boundery == IF unbounded THEN None ELSE bounderies
       IN  /\ rover' = Some(moved)
           /\ trail' = [trail EXCEPT ![Len(trail)] = Append(@, moved)]
           /\ IF has_crossed_boundery(moved, boundery)
              THEN /\ result' = Some(BounderyErr(moved, i))
                   /\ pc' = "done"
                   /\ UNCHANGED i
              ELSE /\ i' = i + 1
                   /\ UNCHANGED <<result, pc>>
    /\ UNCHANGED <<message, eof, unbounded, lines, bounderies,
                   instructions_and_positions, index, collected, previous>>
    /\ UNCHANGED shown

\* rover.rs:48: execute_commands returns Ok(self); collect keeps the rover.
ReturnRover ==
    /\ pc = "execute"
    /\ rover # None
    /\ i = Len(instructions_and_positions[index + 1][2])
    /\ collected' = Append(collected, rover[1])
    /\ rover' = None
    /\ index' = index + 1
    /\ UNCHANGED <<message, eof, unbounded, pc, lines, bounderies,
                   instructions_and_positions, i, result, trail, previous>>
    /\ UNCHANGED shown

\* rover.rs:88: the iterator is exhausted, collect returns the vector.
Collect ==
    /\ pc = "execute"
    /\ rover = None
    /\ index = Len(instructions_and_positions)
    /\ result' = Some(Ok(collected))
    /\ pc' = "done"
    /\ UNCHANGED <<message, eof, unbounded, lines, bounderies,
                   instructions_and_positions, index, rover, i, collected,
                   trail, previous>>
    /\ UNCHANGED shown

\* main.rs:50: the same instructions file is processed once more with the
\* --unbounded flag the other way round; the earlier outcome is kept.
Rerun ==
    /\ pc = "done"
    /\ previous = None
    /\ previous' = Some([unbounded |-> unbounded, result |-> result[1],
                         trail |-> trail])
    /\ unbounded' = ~unbounded
    /\ pc' = "bounderies"
    /\ lines' = 0
    /\ bounderies' = None
    /\ instructions_and_positions' = <<>>
    /\ index' = 0
    /\ rover' = None
    /\ i' = 0
    /\ collected' = <<>>
    /\ result' = None
    /\ trail' = <<>>
    /\ shown' = None
    /\ UNCHANGED <<message, eof>>

\* main.rs:37-39 and 50-62: the outcome of the call is shown, an error
\* through its Display, the rovers one per line through to_string.
Report ==
    /\ pc = "done"
    /\ shown = None
    /\ shown' = Some(IF result[1].tag = "Ok"
                     THEN [kind |-> "Output",
                           lines |-> [k \in 1..Len(result[1].val) |->
                                         RoverToString(result[1].val[k])]]
                     ELSE Display(result[1]))
    /\ UNCHANGED <<message, eof, unbounded, pc, lines, bounderies,
                   instructions_and_positions, index, rover, i, collected,
                   result, trail, previous>>

Next ==
    \/ ParseBounderies
    \/ ParsePair
    \/ NewRover
    \/ ExecuteInstruction
    \/ ReturnRover
    \/ Collect
    \/ Report
    \/ Rerun

Spec == Init /\ [][Next]_vars

\* ------------------------------------------------- vocabulary of the claims
\* The k-th rover of the message as the satellite is to build it (1-based).
StartOf(k) ==
    [id |-> k,
     x |-> instructions_and_positions[k][1][1][1],
     y |-> instructions_and_positions[k][1][1][2],
     facing |-> instructions_and_positions[k][1][2]]

InstructionsOf(k) == instructions_and_positions[k][2]

\* The rover after the first n instructions of a list, with no check at all.
RECURSIVE Fold(_, _, _)
Fold(r, instrs, n) ==
    IF n = 0 THEN r ELSE ApplyInstruction(Fold(r, instrs, n - 1), instrs[n])

MaxX == bounderies[1][1]
MaxY == bounderies[1][2]
Outside(r) == r.x < 0 \/ r.y < 0 \/ r.x > MaxX \/ r.y > MaxY
Inside(r) == 0 <= r.x /\ r.x <= MaxX /\ 0 <= r.y /\ r.y <= MaxY

HasResult(tag) == result # None /\ result[1].tag = tag

\* C1: with a boundary present, execute_commands applies the instructions in
\* order; at the first instruction i (0-based) after which the rover is off
\* the plateau it returns Boundery(rover after instruction i, i) and applies
\* nothing after i.
C1_FirstViolationStops ==
    (~unbounded /\ trail # <<>>) =>
        LET k == Len(trail)
            t == trail[k]
        IN  /\ Len(t) <= Len(InstructionsOf(k))
            /\ \A j \in 1..Len(t) : t[j] = Fold(StartOf(k), InstructionsOf(k), j)
            /\ \A j \in 1..(Len(t) - 1) : Inside(t[j])
            /\ (Len(t) > 0 /\ Outside(t[Len(t)])) =>
                   /\ pc = "done"
                   /\ result = Some(BounderyErr(t[Len(t)], Len(t) - 1))
            /\ HasResult("Boundery") =>
                   /\ Len(t) > 0
                   /\ Outside(t[Len(t)])
                   /\ result[1].instruction = Len(t) - 1
                   /\ result[1].rover = t[Len(t)]

\* C1 witness: a Boundery error at a later instruction than the first, with
\* instructions of the list left unapplied.
C1_Witness ==
    /\ ~unbounded
    /\ HasResult("Boundery")
    /\ result[1].instruction >= 1
    /\ result[1].instruction + 1 < Len(InstructionsOf(Len(trail)))
    /\ Len(trail[Len(trail)]) = result[1].instruction + 1

\* C2: with boundary checking enabled every rover of a successful run was on
\* the plateau, bounds included, after each of its instructions and is so in
\* the returned list; a rover is only ever refused when it is strictly off.
C2_ReturnedRoversStayedInside ==
    /\ (~unbounded /\ HasResult("Ok")) =>
          /\ Len(trail) = Len(result[1].val)
          /\ \A k \in 1..Len(trail) :
                /\ \A j \in 1..Len(trail[k]) : Inside(trail[k][j])
                /\ Len(trail[k]) = Len(InstructionsOf(k))
                /\ result[1].val[k] = trail[k][Len(trail[k])]
                /\ Inside(result[1].val[k])
    /\ (~unbounded /\ HasResult("Boundery")) =>
          ~(/\ 0 <= result[1].rover.x /\ result[1].rover.x <= MaxX
            /\ 0 <= result[1].rover.y /\ result[1].rover.y <= MaxY)

\* C2 witness: a successful bounded run returns a rover standing exactly on
\* the corner (max_x, max_y).
C2_Witness ==
    /\ ~unbounded
    /\ HasResult("Ok")
    /\ \E k \in 1..Len(result[1].val) :
          result[1].val[k].x = MaxX /\ result[1].val[k].y = MaxY

BothRunsDone == pc = "done" /\ previous # None
RunOf(u) ==
    IF unbounded = u THEN [result |-> result[1], trail |-> trail]
    ELSE [result |-> previous[1].result, trail |-> previous[1].trail]

\* C4 as stated: whenever the bounded run fails with a Boundery error, the
\* unbounded run of the same message succeeds and the rover that crossed
\* ends off the plateau.
C4_UnboundedEndsOutside ==
    (BothRunsDone /\ RunOf(FALSE).result.tag = "Boundery") =>
        /\ RunOf(TRUE).result.tag = "Ok"
        /\ Outside(RunOf(TRUE).result.val[RunOf(FALSE).result.rover.id])

\* C4 amended: whenever the bounded run fails with a Boundery error at
\* instruction i, the unbounded run of the same message succeeds and the
\* same rover is off the plateau right after its instruction i, in the very
\* state the error carries; where it ends is not constrained.
C4_UnboundedPassesOutside ==
    (BothRunsDone /\ RunOf(FALSE).result.tag = "Boundery") =>
        LET e == RunOf(FALSE).result
            t == RunOf(TRUE).trail
        IN  /\ RunOf(TRUE).result.tag = "Ok"
            /\ Len(RunOf(TRUE).result.val) = Len(instructions_and_positions)
            /\ e.rover.id \in 1..Len(t)
            /\ e.instruction + 1 \in 1..Len(t[e.rover.id])
            /\ t[e.rover.id][e.instruction + 1] = e.rover
            /\ Outside(t[e.rover.id][e.instruction + 1])

\* C4 witness: the bounded run failed, the unbounded run of the same message
\* succeeded and the rover that crossed is back on the plateau at the end.
C4_Witness ==
    /\ BothRunsDone
    /\ RunOf(FALSE).result.tag = "Boundery"
    /\ RunOf(TRUE).result.tag = "Ok"
    /\ Inside(RunOf(TRUE).result.val[RunOf(FALSE).result.rover.id])

\* The grammar the line with 0-based index n is parsed with.
Grammar(n, text) ==
    IF n = 0 THEN coordinate(text)
    ELSE IF n % 2 = 1 THEN starting_position(text)
    ELSE instruction_stream(text)

\* The trimmed line n matches its grammar and nothing is left over.
CompleteParse(n) ==
    LET p == Grammar(n, Trim(message[n + 1])) IN p.ok /\ p.rest = <<>>

\* The trimmed line n matches its grammar and text is left over after it.
Leftover(n) ==
    LET p == Grammar(n, Trim(message[n + 1])) IN p.ok /\ p.rest # <<>>

FailingLines == {n \in 0..(Len(message) - 1) : ~CompleteParse(n)}

Min(S) == CHOOSE m \in S : \A o \in S : m <= o

\* The k-th rover read off lines 2k-1 and 2k of the message, run with no
\* check.
RoverOfLines(k) ==
    LET pos == starting_position(Trim(message[2 * k])).val
        ins == instruction_stream(Trim(message[2 * k + 1])).val
    IN  Fold([id |-> k, x |-> pos[1][1], y |-> pos[1][2], facing |-> pos[2]],
             ins, Len(ins))

\* C5: a successful run returns one rover per pair of lines, in the order of
\* the message, the k-th with id k; a rover keeps its id through every
\* instruction, in the list returned and in a Boundery error.
C5_OneRoverPerPairIdsInOrder ==
    /\ HasResult("Ok") =>
          /\ eof
          /\ 2 * Len(result[1].val) + 1 = Len(message)
          /\ \A k \in 1..Len(result[1].val) :
                /\ result[1].val[k].id = k
                /\ result[1].val[k] = RoverOfLines(k)
    /\ \A k \in 1..Len(trail) : \A j \in 1..Len(trail[k]) : trail[k][j].id = k
    /\ \A k \in 1..Len(collected) : collected[k].id = k
    /\ rover # None => rover[1].id = index + 1 /\ Len(trail) = index + 1
    /\ HasResult("Boundery") => result[1].rover.id = index + 1

\* C5 witness: a successful run returned two rovers in different places.
C5_Witness ==
    /\ HasResult("Ok")
    /\ Len(result[1].val) = 2
    /\ <<result[1].val[1].x, result[1].val[1].y>>
          # <<result[1].val[2].x, result[1].val[2].y>>

\* The rover k leaves the plateau after one of its instructions.
Violates(k) ==
    \E j \in 1..Len(InstructionsOf(k)) :
        Outside(Fold(StartOf(k), InstructionsOf(k), j))

Violators == {k \in 1..Len(instructions_and_positions) : Violates(k)}

FirstViolation(k) ==
    Min({j \in 1..Len(InstructionsOf(k)) :
            Outside(Fold(StartOf(k), InstructionsOf(k), j))})

\* C6: when every line parses and some rover leaves the plateau in bounded
\* mode, the run returns the Boundery error of the violating rover with the
\* lowest id, with that rover's own instruction index; no list is returned
\* and no rover after the failing one is executed.
C6_FailFastLowestViolator ==
    (~unbounded /\ pc \in {"execute", "done"} /\ ~HasResult("Parse")
                /\ Violators # {}) =>
        LET k == Min(Violators)
            n == FirstViolation(k)
        IN  /\ Len(trail) <= k
            /\ Len(collected) < k
            /\ ~HasResult("Ok")
            /\ pc = "done" =>
                  /\ result = Some(BounderyErr(
                                 Fold(StartOf(k), InstructionsOf(k), n), n - 1))
                  /\ Len(trail) = k

\* C6 witness: the second rover crossed the boundary after the first one had
\* been run to its end.
C6_Witness ==
    /\ ~unbounded
    /\ HasResult("Boundery")
    /\ result[1].rover.id = 2
    /\ Len(collected) = 1

\* C7: the whole message is parsed before any rover is run.  A run that ends
\* in a Parse error has applied no instruction; a rover is only run, and a
\* Boundery error or a list only returned, for a message read to its end of
\* which every line parses; a message with a line that does not parse, or
\* without its last instruction line, ends in a Parse error.
C7_ParseBeforeExecute ==
    /\ HasResult("Parse") => trail = <<>> /\ rover = None /\ collected = <<>>
    /\ (pc = "execute" \/ trail # <<>> \/ HasResult("Ok") \/ HasResult("Boundery"))
          => eof /\ FailingLines = {} /\ Len(message) % 2 = 1
    /\ (pc = "done" /\ (FailingLines # {} \/ (eof /\ Len(message) % 2 = 0)))
          => HasResult("Parse")

\* C7 witness: a bounded run ended in a Parse error at a later pair although
\* the first rover of the message would have left the plateau.
C7_Witness ==
    /\ ~unbounded
    /\ HasResult("Parse")
    /\ result[1].line >= 3
    /\ Len(instructions_and_positions) >= 1
    /\ Violates(1)
    /\ trail = <<>>

\* C8: a parse failure carries the 0-based index of the line that failed: 0
\* for a boundary line that does not parse completely, and otherwise the
\* smallest index of a line that fails its grammar.
C8_ParseErrorLineIndex ==
    /\ (pc # "bounderies" /\ message # <<>> /\ ~CompleteParse(0))
          => result = Some(ParseErr("UnexpectedToken", 0))
    /\ (HasResult("Parse") /\ result[1].err = "UnexpectedToken")
          => FailingLines # {}
    /\ (HasResult("Parse") /\ FailingLines # {})
          => result[1].line = Min(FailingLines)

\* C8 witness: both lines of a pair fail their grammar and the error names
\* the starting-position line.
C8_Witness ==
    /\ HasResult("Parse")
    /\ result[1].err = "UnexpectedToken"
    /\ result[1].line % 2 = 1
    /\ result[1].line + 2 = Len(message)
    /\ ~CompleteParse(result[1].line + 1)

\* C9: an odd number of lines after the boundary line, with every pair before
\* the last line parsing, gives MissingInstructions with the index of the
\* last line, be that line a starting position or not; MissingInstructions
\* is returned in no other case.
C9_MissingInstructions ==
    /\ (pc = "done" /\ eof /\ Len(message) >= 2 /\ Len(message) % 2 = 0
          /\ \A n \in 0..(Len(message) - 2) : CompleteParse(n))
          => result = Some(ParseErr("MissingInstructions", Len(message) - 1))
    /\ (HasResult("Parse") /\ result[1].err = "MissingInstructions")
          => /\ eof
             /\ Len(message) >= 2
             /\ Len(message) % 2 = 0
             /\ result[1].line = Len(message) - 1

\* C9 witness: MissingInstructions for a last line that is no starting
\* position, after a pair that parsed.
C9_Witness ==
    /\ HasResult("Parse")
    /\ result[1].err = "MissingInstructions"
    /\ Len(message) >= 4
    /\ ~CompleteParse(Len(message) - 1)

\* The number of lines the satellite has accepted so far.
AcceptedLines ==
    (IF bounderies = None THEN 0 ELSE 1) + 2 * Len(instructions_and_positions)

\* C10: a line is accepted only on a complete parse of the trimmed line, an
\* UnexpectedToken is raised only for a line without one, and a boundary,
\* starting-position or instruction line with text left over after its
\* grammar matched is an UnexpectedToken failure at that line.
C10_CompleteParseOnly ==
    /\ \A n \in 0..(AcceptedLines - 1) : CompleteParse(n)
    /\ (HasResult("Parse") /\ result[1].err = "UnexpectedToken")
          => result[1].line < Len(message) /\ ~CompleteParse(result[1].line)
    /\ pc = "done" =>
          \A n \in 0..(Len(message) - 1) :
             (/\ Leftover(n)
              /\ \A m \in 0..(n - 1) : CompleteParse(m)
              /\ (n % 2 = 1 => n + 1 < Len(message)))
             => result = Some(ParseErr("UnexpectedToken", n))

\* C10 witness: a rover line whose grammar matched with text left over was
\* refused with UnexpectedToken.
C10_Witness ==
    /\ HasResult("Parse")
    /\ result[1].err = "UnexpectedToken"
    /\ result[1].line >= 1
    /\ Leftover(result[1].line)

\* ------------------------------------------------------- the grammar alone
\* The parsers of parse.rs called on a text directly, as its tests do.  The
\* text is held as a message of one line and is not trimmed.

\* Longest text handed to a parser.
MaxText == 4

\* The characters the texts are made of.
Alphabet == {"0", "1", "_", "-", " ", "M", "l", "R"}

\* The characters tried in first place besides those of Alphabet.
FirstCharacters ==
    {"N", "n", "E", "e", "S", "s", "W", "w", "m", "L", "r", "9", "x", "K",
     "k", "\t", "+"}

Strings(A, n) == UNION {[1..k -> A] : k \in 0..n}

Texts ==
    Strings(Alphabet, MaxText)
        \cup {<<c>> \o t : c \in FirstCharacters, t \in Strings(Alphabet, 1)}

GrammarInit ==
    /\ message \in {<<t>> : t \in Texts}
    /\ eof = TRUE
    /\ unbounded = FALSE
    /\ pc = "grammar"
    /\ lines = 0
    /\ bounderies = None
    /\ instructions_and_positions = <<>>
    /\ index = 0
    /\ rover = None
    /\ i = 0
    /\ collected = <<>>
    /\ result = None
    /\ trail = <<>>
    /\ previous = None
    /\ shown = None

GrammarUnchanged ==
    UNCHANGED <<message, eof, unbounded, lines, bounderies,
                instructions_and_positions, index, rover, i, collected,
                trail, previous, shown>>

CallDecimal ==
    /\ pc = "grammar"
    /\ pc' = "decimal"
    /\ result' = Some(decimal(message[1]))
    /\ GrammarUnchanged

CallDirection ==
    /\ pc = "grammar"
    /\ pc' = "direction"
    /\ result' = Some(direction(message[1]))
    /\ GrammarUnchanged

CallInstruction ==
    /\ pc = "grammar"
    /\ pc' = "instruction"
    /\ result' = Some(instruction(message[1]))
    /\ GrammarUnchanged

CallInstructionStream ==
    /\ pc = "grammar"
    /\ pc' = "instruction_stream"
    /\ result' = Some(instruction_stream(message[1]))
    /\ GrammarUnchanged

GrammarNext ==
    \/ CallDecimal
    \/ CallDirection
    \/ CallInstruction
    \/ CallInstructionStream

GrammarSpec == GrammarInit /\ [][GrammarNext]_vars

\* A text of digits grouped by underscores: it starts and ends with a digit
\* and holds nothing but digits and underscores.
IsGroupedDigits(t) ==
    /\ t # <<>>
    /\ Head(t) \in Digit
    /\ t[Len(t)] \in Digit
    /\ \A k \in 1..Len(t) : t[k] \in Digit \cup {"_"}

RECURSIVE WithoutUnderscores(_)
WithoutUnderscores(t) ==
    IF t = <<>> THEN <<>>
    ELSE IF Head(t) = "_" THEN WithoutUnderscores(Tail(t))
    ELSE <<Head(t)>> \o WithoutUnderscores(Tail(t))

\* C11: on every text of digits, grouped by underscores or not, decimal
\* succeeds with the value of the digits, the underscores ignored, and
\* consumes the whole text; on every text that begins with anything but a
\* digit, a '-' included, decimal fails.
C11_DecimalValue ==
    pc = "decimal" =>
        LET t == message[1]
            r == result[1]
        IN  /\ IsGroupedDigits(t) =>
                  /\ r.ok
                  /\ r.rest = <<>>
                  /\ r.val = DigitsValue(WithoutUnderscores(t))
            /\ (t # <<>> /\ Head(t) \notin Digit) => ~r.ok

\* C12: direction and instruction accept exactly one letter of N/E/S/W and
\* of M/L/R, in either case, and map it to its enumeration value; they fail
\* on any other first character, so a parse that succeeded never took the
\* fallback arm of the From<&str> conversions.
C12_LettersToEnumerations ==
    /\ pc = "direction" =>
          LET t == message[1]
              r == result[1]
          IN  IF t # <<>> /\ Head(t) \in {"N", "n", "E", "e", "S", "s", "W", "w"}
              THEN /\ r.ok
                   /\ r.rest = Tail(t)
                   /\ Head(t) \in {"N", "n"} => r.val = "North"
                   /\ Head(t) \in {"E", "e"} => r.val = "East"
                   /\ Head(t) \in {"S", "s"} => r.val = "South"
                   /\ Head(t) \in {"W", "w"} => r.val = "West"
              ELSE ~r.ok
    /\ pc = "instruction" =>
          LET t == message[1]
              r == result[1]
          IN  IF t # <<>> /\ Head(t) \in {"M", "m", "L", "l", "R", "r"}
              THEN /\ r.ok
                   /\ r.rest = Tail(t)
                   /\ Head(t) \in {"M", "m"} => r.val = "Move"
                   /\ Head(t) \in {"L", "l"} => r.val = "Left"
                   /\ Head(t) \in {"R", "r"} => r.val = "Right"
              ELSE ~r.ok

\* C12 witness: direction took a lower-case w, followed by more text, for
\* West.
C12_Witness ==
    /\ pc = "direction"
    /\ Len(message[1]) = 2
    /\ Head(message[1]) = "w"
    /\ result[1].ok
    /\ result[1].val = "West"

\* A text made of instruction letters, each followed by any whitespace.
IsStream(t) ==
    /\ t # <<>>
    /\ Head(t) \in {"M", "m", "L", "l", "R", "r"}
    /\ \A k \in 1..Len(t) :
          t[k] \in {"M", "m", "L", "l", "R", "r", " ", "\t", "\r", "\n"}

\* The instructions the letters of a text stand for, whitespace left out.
RECURSIVE LettersOf(_)
LettersOf(t) ==
    IF t = <<>> THEN <<>>
    ELSE IF Head(t) \in {"M", "m"} THEN <<"Move">> \o LettersOf(Tail(t))
    ELSE IF Head(t) \in {"L", "l"} THEN <<"Left">> \o LettersOf(Tail(t))
    ELSE IF Head(t) \in {"R", "r"} THEN <<"Right">> \o LettersOf(Tail(t))
    ELSE LettersOf(Tail(t))

\* C18: instruction_stream gives the list of the letters of its text with an
\* empty remainder whatever whitespace follows each letter, so two texts
\* with the same letters parse to the same list; it fails on the empty text
\* and on a text that does not start with an instruction.
C18_StreamIgnoresWhitespace ==
    pc = "instruction_stream" =>
        LET t == message[1]
            r == result[1]
        IN  /\ IsStream(t) =>
                  r.ok /\ r.rest = <<>> /\ r.val = LettersOf(t)
            /\ t = <<>> => ~r.ok
            /\ r.ok => Len(r.val) >= 1

\* C18 witness: a text with whitespace between and after its letters gave
\* the list of its letters.
C18_Witness ==
    /\ pc = "instruction_stream"
    /\ Len(message[1]) = 4
    /\ message[1][2] = " "
    /\ message[1][4] = " "
    /\ result[1].ok
    /\ Len(result[1].val) = 2
    /\ result[1].rest = <<>>

\* --------------------------------------------------------- the rover alone
\* execute_commands called on a rover directly, as the tests of rover.rs do:
\* the list holds one rover that did not come out of a message.

\* Longest list of instructions handed to execute_commands.
MaxInstructions == 4

Instructions == {"Move", "Left", "Right"}

StartCoordinates == {<<0, 0>>, <<1, 1>>, <<-1, -1>>}

RoverInit ==
    /\ message = <<>>
    /\ eof = TRUE
    /\ unbounded \in BOOLEAN
    /\ pc = "execute"
    /\ lines = 0
    /\ bounderies = Some(<<1, 1>>)
    /\ instructions_and_positions \in
          {<< <<<<c, d>>, ins>> >> :
              c \in StartCoordinates,
              d \in {"North", "East", "South", "West"},
              ins \in Strings(Instructions, MaxInstructions)}
    /\ index = 0
    /\ rover = None
    /\ i = 0
    /\ collected = <<>>
    /\ result = None
    /\ trail = <<>>
    /\ previous = None
    /\ shown = None

RoverNext ==
    \/ NewRover
    \/ ExecuteInstruction
    \/ ReturnRover
    \/ Collect

RoverSpec == RoverInit /\ [][RoverNext]_vars

\* The states of rover k: its start, then the state after each instruction
\* applied so far.
StatesOf(k) == <<StartOf(k)>> \o trail[k]

\* The instructions j .. j+n-1 of rover k have been applied and all are ins.
Run(k, j, n, ins) ==
    /\ j + n - 1 <= Len(trail[k])
    /\ \A m \in j..(j + n - 1) : InstructionsOf(k)[m] = ins

\* C13: a turn is one step of the cycle North -> East -> South -> West ->
\* North, forward for Right and backward for Left, and changes neither x, y
\* nor id; from every direction four Rights, and four Lefts, give the
\* direction back, and a Right then a Left, or a Left then a Right, does too.
C13_TurnsAreCyclic ==
    \A k \in 1..Len(trail) :
        LET s == StatesOf(k)
            ins == InstructionsOf(k)
        IN  \A j \in 1..Len(trail[k]) :
              /\ ins[j] \in {"Left", "Right"} =>
                    /\ s[j + 1].x = s[j].x
                    /\ s[j + 1].y = s[j].y
                    /\ s[j + 1].id = s[j].id
              /\ ins[j] = "Right" =>
                    <<s[j].facing, s[j + 1].facing>> \in
                        {<<"North", "East">>, <<"East", "South">>,
                         <<"South", "West">>, <<"West", "North">>}
              /\ ins[j] = "Left" =>
                    <<s[j + 1].facing, s[j].facing>> \in
                        {<<"North", "East">>, <<"East", "South">>,
                         <<"South", "West">>, <<"West", "North">>}
              /\ Run(k, j, 4, "Right") => s[j + 4].facing = s[j].facing
              /\ Run(k, j, 4, "Left") => s[j + 4].facing = s[j].facing
              /\ (Run(k, j, 1, "Right") /\ Run(k, j + 1, 1, "Left"))
                    => s[j + 2].facing = s[j].facing
              /\ (Run(k, j, 1, "Left") /\ Run(k, j + 1, 1, "Right"))
                    => s[j + 2].facing = s[j].facing

\* C13 witness: four Lefts from North, through the wrap to West, applied.
C13_Witness ==
    /\ Len(trail) = 1
    /\ StartOf(1).facing = "North"
    /\ Run(1, 1, 4, "Left")
    /\ trail[1][1].facing = "West"
    /\ trail[1][4].facing = "North"

\* C14: a Move changes the position by one cell along the facing direction,
\* North (x, y+1), East (x+1, y), South (x, y-1), West (x-1, y), and leaves
\* facing and id as they are.
C14_MoveIsOneCell ==
    \A k \in 1..Len(trail) :
        LET s == StatesOf(k) IN
        \A j \in 1..Len(trail[k]) :
            InstructionsOf(k)[j] = "Move" =>
                /\ s[j + 1].facing = s[j].facing
                /\ s[j + 1].id = s[j].id
                /\ s[j].facing = "North" =>
                      s[j + 1].x = s[j].x /\ s[j + 1].y = s[j].y + 1
                /\ s[j].facing = "East" =>
                      s[j + 1].x = s[j].x + 1 /\ s[j + 1].y = s[j].y
                /\ s[j].facing = "South" =>
                      s[j + 1].x = s[j].x /\ s[j + 1].y = s[j].y - 1
                /\ s[j].facing = "West" =>
                      s[j + 1].x = s[j].x - 1 /\ s[j + 1].y = s[j].y

\* C14 witness: a rover has moved South and then West, into negative
\* coordinates.
C14_Witness ==
    /\ Len(trail) = 1
    /\ \A d \in {"South", "West"} :
          \E j \in 1..Len(trail[1]) :
             /\ InstructionsOf(1)[j] = "Move"
             /\ trail[1][j].facing = d
             /\ trail[1][j].y < 0

\* ---------------------------------------------------- the reference message
\* The message of the test valid_input, as one would type it and as the
\* test writes it, each rover line indented.
ReferenceMessage ==
    << <<"5", " ", "5">>,
       <<"1", " ", "2", " ", "N">>,
       <<"L", "M", "L", "M", "L", "M", "L", "M", "M">>,
       <<"3", " ", "3", " ", "E">>,
       <<"M", "M", "R", "M", "M", "R", "M", "R", "R", "M">> >>

IndentedReferenceMessage ==
    << <<"5", " ", "5">>,
       <<" ", " ", " ", " ", "1", " ", "2", " ", "N">>,
       <<" ", " ", " ", " ", "L", "M", "L", "M", "L", "M", "L", "M", "M">>,
       <<" ", " ", " ", " ", "3", " ", "3", " ", "E">>,
       <<" ", " ", " ", " ", "M", "M", "R", "M", "M", "R", "M", "R", "R", "M">> >>

ScenarioInit ==
    /\ message \in {ReferenceMessage, IndentedReferenceMessage}
    /\ eof = TRUE
    /\ unbounded \in BOOLEAN
    /\ pc = "bounderies"
    /\ lines = 0
    /\ bounderies = None
    /\ instructions_and_positions = <<>>
    /\ index = 0
    /\ rover = None
    /\ i = 0
    /\ collected = <<>>
    /\ result = None
    /\ trail = <<>>
    /\ previous = None
    /\ shown = None

ScenarioSpec == ScenarioInit /\ [][Next]_vars

\* C15: the reference message, run with unbounded = false, succeeds and
\* returns exactly rover 1 at (1, 3) facing North and rover 2 at (5, 1)
\* facing East.
C15_ReferenceScenario ==
    (pc = "done" /\ ~unbounded) =>
        result = Some(Ok(<<[id |-> 1, x |-> 1, y |-> 3, facing |-> "North"],
                           [id |-> 2, x |-> 5, y |-> 1, facing |-> "East"]>>))

\* C15 witness: the bounded run of the reference message is over, all
\* nineteen instructions applied.
C15_Witness ==
    /\ pc = "done"
    /\ ~unbounded
    /\ message = ReferenceMessage
    /\ Len(trail) = 2
    /\ Len(trail[1]) = 9
    /\ Len(trail[2]) = 10

\* ------------------------------------------------- more about whole messages
\* C16: a message that is a valid boundary line and nothing else succeeds
\* with an empty list of rovers, with and without boundary checking.
C16_BoundaryLineOnly ==
    (pc = "done" /\ eof /\ Len(message) = 1 /\ CompleteParse(0)) =>
        /\ result = Some(Ok(<<>>))
        /\ trail = <<>>

\* C16 witness: both runs of a message of one boundary line returned the
\* empty list.
C16_Witness ==
    /\ BothRunsDone
    /\ Len(message) = 1
    /\ RunOf(FALSE).result = Ok(<<>>)
    /\ RunOf(TRUE).result = Ok(<<>>)

\* C17: a message without a first line fails with MissingPlateauBounderies
\* at line index 0, no rover parsed and none run; the error has no other
\* cause.
C17_MissingPlateauBounderies ==
    /\ (pc = "done" /\ message = <<>>) =>
          /\ result = Some(ParseErr("MissingPlateauBounderies", 0))
          /\ bounderies = None
          /\ instructions_and_positions = <<>>
          /\ trail = <<>>
    /\ (HasResult("Parse") /\ result[1].err = "MissingPlateauBounderies") =>
          message = <<>> /\ eof

\* C17 witness: the run of the empty message is over.
C17_Witness ==
    /\ pc = "done"
    /\ message = <<>>
    /\ eof
    /\ HasResult("Parse")

\* Rover k run alone, as the first and only rover of a message with the same
\* boundary line: its state after its first n instructions.
Alone(k, n) == Fold([StartOf(k) EXCEPT !.id = 1], InstructionsOf(k), n)

\* C19: rovers do not interfere.  Every state a rover goes through is the
\* one it goes through when run alone, and in a successful run rover k ends
\* where it ends alone, a run that succeeds alone as well; rovers may share
\* a cell.
C19_RoversDoNotInterfere ==
    /\ \A k \in 1..Len(trail) : \A j \in 1..Len(trail[k]) :
          [trail[k][j] EXCEPT !.id = 1] = Alone(k, j)
    /\ HasResult("Ok") =>
          \A k \in 1..Len(result[1].val) :
             /\ [result[1].val[k] EXCEPT !.id = 1]
                   = Alone(k, Len(InstructionsOf(k)))
             /\ ~unbounded =>
                   \A j \in 1..Len(InstructionsOf(k)) : Inside(Alone(k, j))

\* C19 witness: a successful run whose second rover starts facing another
\* way than the first ended, and ends on the cell the first one ended on.
C19_Witness ==
    /\ HasResult("Ok")
    /\ Len(result[1].val) = 2
    /\ result[1].val[1].x = result[1].val[2].x
    /\ result[1].val[1].y = result[1].val[2].y
    /\ result[1].val[1].facing # StartOf(2).facing

\* C20: the starting position is not checked against the plateau.  In
\* bounded mode a rover that starts off the plateau is not refused before
\* its first instruction; it is refused with instruction index 0 exactly
\* when it is still off the plateau after its first instruction, and it is
\* accepted when its first instruction is a Move and it is on the plateau
\* after every instruction.
C20_StartIsNotChecked ==
    (~unbounded /\ pc \in {"execute", "done"} /\ ~HasResult("Parse")) =>
        \A k \in 1..Len(trail) :
            Outside(StartOf(k)) =>
                LET refused == HasResult("Boundery") /\ result[1].rover.id = k
                    ins == InstructionsOf(k)
                IN  /\ Len(trail[k]) = 0 => ~refused
                    /\ Len(trail[k]) >= 1 =>
                          (Outside(trail[k][1])
                              <=> (refused /\ result[1].instruction = 0))
                    /\ (/\ ins[1] = "Move"
                        /\ \A j \in 1..Len(ins) : Inside(Fold(StartOf(k), ins, j)))
                          => /\ ~refused
                             /\ k < Len(trail) => k <= Len(collected)
                             /\ (pc = "done" /\ k = Len(trail)) => HasResult("Ok")

\* C20 witness: a bounded run succeeded with a rover that started off the
\* plateau and moved onto it.
C20_Witness ==
    /\ ~unbounded
    /\ HasResult("Ok")
    /\ \E k \in 1..Len(result[1].val) :
          /\ Outside(StartOf(k))
          /\ InstructionsOf(k)[1] = "Move"
          /\ Inside(result[1].val[k])

\* ------------------------------------------------------- what the user reads
\* C21: for every Boundery error of a run, the instruction number shown is
\* the 0-based index of the violating instruction plus 1, and the line
\* number shown, (rover.id * 2) + 1, is the 1-based number of the line of
\* the message that holds that rover's instructions.
C21_ShownNumbersMatchInput ==
    (shown # None /\ shown[1].kind = "Boundery") =>
        LET e == result[1]
            k == e.rover.id
            n == DigitsValue(shown[1].instruction)
            l == DigitsValue(shown[1].line)
        IN  /\ HasResult("Boundery")
            /\ n = e.instruction + 1
            /\ n \in 1..Len(InstructionsOf(k))
            /\ trail[k][n] = e.rover
            /\ l = 2 * k + 1
            /\ l \in 2..Len(message)
            /\ from_parse_result(instruction_stream(Trim(message[l])), l - 1)
                  = Ok(InstructionsOf(k))
            /\ from_parse_result(starting_position(Trim(message[l - 1])), l - 2)
                  = Ok(instructions_and_positions[k][1])
            /\ DigitsValue(shown[1].rover) = k

\* C21 witness: the error of the second rover, at a later instruction than
\* its first, has been shown.
C21_Witness ==
    /\ shown # None
    /\ shown[1].kind = "Boundery"
    /\ result[1].rover.id = 2
    /\ result[1].instruction >= 1
    /\ shown[1].line = <<"5">>
====
